---- MODULE Spec2Model ----
(***************************************************************************)
(* A model of the transaction engine (src/src/engine.rs) and of the        *)
(* accounts it drives (src/src/account.rs).                                *)
(*                                                                         *)
(* Amount is the unsigned 64-bit fixed-point type U50F14 (src/src/lib.rs). *)
(* The model keeps its raw integer value and scales the width down to      *)
(* AmountBits bits.  `+` and `+=` on that type overflow the way Rust       *)
(* integers do: a panic when the build has overflow checks (debug), a      *)
(* wrap modulo 2^width when it has not (release).  The build is the        *)
(* variable overflowChecks, chosen once in Init.                           *)
(***************************************************************************)
EXTENDS Integers, FiniteSets, Sequences, TLC

(* ------------------------------ bounds -------------------------------- *)

NumClients == 2
NumTxIds == 2
AmountBits == 3

Clients == 1..NumClients
TxIds == 1..NumTxIds

Modulus == 2 ^ AmountBits
\* Amount::MAX, raw
MaxAmount == Modulus - 1

\* Option<Amount>::None
None == -1

\* the amounts the input records carry
Amounts == {1, MaxAmount}

(* ------------------------------ state --------------------------------- *)

VARIABLES
    accounts,       \* TransactionEngine.accounts: AccountId -> Account
    transactions,   \* TransactionEngine.transactions: TransactionId -> Transaction
    disputes,       \* TransactionEngine.disputes: set of TransactionId
    overflowChecks, \* the build: TRUE = overflow panics, FALSE = overflow wraps
    panicked,       \* the process has unwound from a panic
    rec,            \* type, id and client of the record handed to the last
                    \* handle_transaction call
    result,         \* what that call returned
    call,           \* AccountSpec: the last Account operation, with the account before and after
    net,            \* LedgerSpec: per client, amounts of successful deposits minus
                    \* amounts of successful withdrawals
    history         \* HistorySpec: per transaction id, what the records handled so
                    \* far achieved

vars == <<accounts, transactions, disputes, overflowChecks, panicked,
          rec, result, call, net, history>>

(* ------------------------------ Amount -------------------------------- *)

\* a + b does not fit the type
Overflows(a, b) == a + b > MaxAmount

\* a + b in a build without overflow checks
WrappingAdd(a, b) == (a + b) % Modulus

\* Amount::checked_sub: None when b > a
checked_sub(a, b) == IF b > a THEN None ELSE a - b

(* ------------------------------ Account ------------------------------- *)

\* Account::new
new(id) == [id |-> id, available |-> 0, held |-> 0, locked |-> FALSE]

\* check_locked with the test dropped
check_locked_disabled(acc) == "Ok"

\* Account::check_locked
check_locked(acc) == IF acc.locked THEN "Locked" ELSE "Ok"

\* Account::total: self.available + self.held
total(acc) ==
    IF Overflows(acc.available, acc.held) /\ overflowChecks
    THEN [res |-> "Panic", val |-> 0]
    ELSE [res |-> "Ok", val |-> WrappingAdd(acc.available, acc.held)]

\* deposit without the call of check_locked
deposit_unchecked(acc, amount) ==
    IF Overflows(acc.available, amount) /\ overflowChecks
    THEN [acc |-> acc, res |-> "Panic"]
    ELSE [acc |-> [acc EXCEPT !.available = WrappingAdd(@, amount)], res |-> "Ok"]

\* Account::deposit
deposit(acc, amount) ==
    IF check_locked(acc) # "Ok" THEN [acc |-> acc, res |-> check_locked(acc)]
    ELSE IF Overflows(acc.available, amount) /\ overflowChecks
    THEN [acc |-> acc, res |-> "Panic"]
    ELSE [acc |-> [acc EXCEPT !.available = WrappingAdd(@, amount)], res |-> "Ok"]

\* withdrawal with saturating_sub in place of checked_sub
withdrawal_saturating(acc, amount) ==
    IF acc.locked THEN [acc |-> acc, res |-> "Locked"]
    ELSE IF checked_sub(acc.available, amount) = None
    THEN [acc |-> [acc EXCEPT !.available = 0], res |-> "InsufficientFunds"]
    ELSE [acc |-> [acc EXCEPT !.available = checked_sub(@, amount)], res |-> "Ok"]

\* Account::withdrawal
withdrawal(acc, amount) ==
    IF check_locked(acc) # "Ok" THEN [acc |-> acc, res |-> check_locked(acc)]
    ELSE IF checked_sub(acc.available, amount) = None
    THEN [acc |-> acc, res |-> "InsufficientFunds"]
    ELSE [acc |-> [acc EXCEPT !.available = checked_sub(@, amount)], res |-> "Ok"]

\* hold_back crediting held before the subtraction is checked
hold_back_credit_first(acc, amount) ==
    IF acc.locked THEN [acc |-> acc, res |-> "Locked"]
    ELSE LET add == [acc EXCEPT !.held = WrappingAdd(@, amount)] IN
         IF checked_sub(acc.available, amount) = None
         THEN [acc |-> add, res |-> "InsufficientFunds"]
         ELSE [acc |-> [add EXCEPT !.available = checked_sub(@, amount)], res |-> "Ok"]

\* Account::hold_back: available is assigned before held += amount runs
hold_back(acc, amount) ==
    IF check_locked(acc) # "Ok" THEN [acc |-> acc, res |-> check_locked(acc)]
    ELSE IF checked_sub(acc.available, amount) = None
    THEN [acc |-> acc, res |-> "InsufficientFunds"]
    ELSE LET sub == [acc EXCEPT !.available = checked_sub(@, amount)] IN
         IF Overflows(sub.held, amount) /\ overflowChecks
         THEN [acc |-> sub, res |-> "Panic"]
         ELSE [acc |-> [sub EXCEPT !.held = WrappingAdd(@, amount)], res |-> "Ok"]

\* Account::set_free: held is assigned before available += amount runs
set_free(acc, amount) ==
    IF check_locked(acc) # "Ok" THEN [acc |-> acc, res |-> check_locked(acc)]
    ELSE IF checked_sub(acc.held, amount) = None
    THEN [acc |-> acc, res |-> "InsufficientFunds"]
    ELSE LET sub == [acc EXCEPT !.held = checked_sub(@, amount)] IN
         IF Overflows(sub.available, amount) /\ overflowChecks
         THEN [acc |-> sub, res |-> "Panic"]
         ELSE [acc |-> [sub EXCEPT !.available = WrappingAdd(@, amount)], res |-> "Ok"]

\* charge_back without self.locked = true
charge_back_without_lock(acc, amount) ==
    IF acc.locked THEN [acc |-> acc, res |-> "Locked"]
    ELSE IF checked_sub(acc.held, amount) = None
    THEN [acc |-> acc, res |-> "InsufficientFunds"]
    ELSE [acc |-> [acc EXCEPT !.held = checked_sub(@, amount)], res |-> "Ok"]

\* Account::charge_back
charge_back(acc, amount) ==
    IF check_locked(acc) # "Ok" THEN [acc |-> acc, res |-> check_locked(acc)]
    ELSE IF checked_sub(acc.held, amount) = None
    THEN [acc |-> acc, res |-> "InsufficientFunds"]
    ELSE [acc |-> [acc EXCEPT !.held = checked_sub(@, amount), !.locked = TRUE],
          res |-> "Ok"]

(* --------------------------- Transaction ------------------------------ *)

TransactionTypes == {"Deposit", "Withdrawal", "Dispute", "Resolve", "Chargeback"}

\* the records the reader can hand to the engine; the amount column is an Option
Transaction ==
    [id : TxIds, type : {"Deposit", "Withdrawal"}, client : Clients,
     amount : Amounts \cup {None}]
    \cup
    [id : TxIds, type : {"Dispute"}, client : Clients, amount : {None, 1}]
    \cup
    [id : TxIds, type : {"Resolve", "Chargeback"}, client : Clients, amount : {None}]

NoRecord == [id |-> 0, type |-> "None", client |-> 0]
NoCall == [op |-> "None", amount |-> 0, pre |-> new(0), post |-> new(0), res |-> "None"]

(* ------------------------- TransactionEngine -------------------------- *)

\* save_transaction without the early return for the other record types
save_transaction_all_types(txs, tx) ==
    IF tx.id \in DOMAIN txs
    THEN [transactions |-> txs, res |-> "DuplicateTransaction"]
    ELSE [transactions |-> txs @@ (tx.id :> tx), res |-> "Ok"]

\* save_transaction with HashMap::insert in place of the entry match
save_transaction_overwrite(txs, tx) ==
    IF tx.type \notin {"Deposit", "Withdrawal"}
    THEN [transactions |-> txs, res |-> "Ok"]
    ELSE [transactions |-> [t \in DOMAIN txs \cup {tx.id} |->
                               IF t = tx.id THEN tx ELSE txs[t]],
          res |-> "Ok"]

\* TransactionEngine::save_transaction
save_transaction(txs, tx) ==
    IF tx.type \notin {"Deposit", "Withdrawal"}
    THEN [transactions |-> txs, res |-> "Ok"]
    ELSE IF tx.id \in DOMAIN txs
    THEN [transactions |-> txs, res |-> "DuplicateTransaction"]
    ELSE [transactions |-> txs @@ (tx.id :> tx), res |-> "Ok"]

\* self.accounts.entry(client).or_insert_with(|| Account::new(client))
or_insert_account(accs, client) ==
    IF client \in DOMAIN accs THEN accs ELSE accs @@ (client :> new(client))

\* the Dispute guard letting every logged record through
is_deposit_any(transaction) == TRUE

\* the guard of the first Dispute arm: only deposits can be disputed
is_deposit(transaction) == transaction.type = "Deposit"

\* the insert with its bool ignored
disputes_insert_unchecked(disp, id) == [disputes |-> disp \cup {id}, res |-> "Ok"]

\* self.disputes.insert(id).then(|| ()).ok_or(DuplicateDispute)
disputes_insert(disp, id) ==
    IF id \in disp
    THEN [disputes |-> disp, res |-> "DuplicateDispute"]
    ELSE [disputes |-> disp \cup {id}, res |-> "Ok"]

\* HashSet::contains in place of HashSet::remove
disputes_remove_contains(disp, id) ==
    IF id \notin disp
    THEN [disputes |-> disp, res |-> "UnknownDispute"]
    ELSE [disputes |-> disp, res |-> "Ok"]

\* the remove with its bool ignored
disputes_remove_unchecked(disp, id) == [disputes |-> disp \ {id}, res |-> "Ok"]

\* self.disputes.remove(&id).then(|| ()).ok_or(UnknownDispute)
disputes_remove(disp, id) ==
    IF id \notin disp
    THEN [disputes |-> disp, res |-> "UnknownDispute"]
    ELSE [disputes |-> disp \ {id}, res |-> "Ok"]

\* HashMap::clear in place of HashMap::remove
transactions_remove_clear(txs, id) == <<>>

\* self.transactions.remove(&id)
transactions_remove(txs, id) == [t \in DOMAIN txs \ {id} |-> txs[t]]

\* what one handle_transaction call leaves behind
Outcome(accs, txs, disp, res) ==
    [accounts |-> accs, transactions |-> txs, disputes |-> disp, result |-> res]

\* TransactionEngine::handle_transaction
handle_transaction(accs, txs, disp, tx) ==
    LET saved == save_transaction(txs, tx) IN
    IF saved.res # "Ok" THEN Outcome(accs, txs, disp, saved.res)
    ELSE
    LET txs1 == saved.transactions IN
    IF tx.id \notin DOMAIN txs1
    THEN Outcome(accs, txs1, disp, "TransactionNotFound")
    ELSE
    LET transaction == txs1[tx.id]
        amount == transaction.amount
    IN
    IF amount = None
    THEN Outcome(accs, txs1, disp, "TransactionAmountNotSpecified")
    ELSE
    LET client == transaction.client
        accs1 == or_insert_account(accs, client)
        account == accs1[client]
        \* the Account operation returned r; `?` hands r.res back when it is an error
        Done(r, txs2, disp2) ==
            Outcome([accs1 EXCEPT ![client] = r.acc], txs2, disp2, r.res)
    IN
    CASE tx.type = "Deposit" ->
            Done(deposit(account, amount), txs1, disp)
      [] tx.type = "Withdrawal" ->
            Done(withdrawal(account, amount), txs1, disp)
      [] tx.type = "Dispute" /\ ~is_deposit(transaction) ->
            Outcome(accs1, txs1, disp, "ImpossibleDispute")
      [] tx.type = "Dispute" /\ is_deposit(transaction) ->
            LET ins == disputes_insert(disp, transaction.id) IN
            IF ins.res # "Ok"
            THEN Outcome(accs1, txs1, disp, ins.res)
            ELSE Done(hold_back(account, amount), txs1, ins.disputes)
      [] tx.type = "Resolve" ->
            LET rem == disputes_remove(disp, transaction.id) IN
            IF rem.res # "Ok"
            THEN Outcome(accs1, txs1, disp, rem.res)
            ELSE Done(set_free(account, amount), txs1, rem.disputes)
      [] tx.type = "Chargeback" ->
            LET rem == disputes_remove(disp, transaction.id) IN
            IF rem.res # "Ok"
            THEN Outcome(accs1, txs1, disp, rem.res)
            ELSE LET r == charge_back(account, amount) IN
                 Done(r,
                      IF r.res = "Ok"
                      THEN transactions_remove(txs1, transaction.id)
                      ELSE txs1,
                      rem.disputes)

(* ----------------------- the engine run: Spec ------------------------- *)

\* nothing handled yet
NoHistory ==
    [chargedBack |-> {}, surplus |-> [t \in TxIds |-> 0]]

\* TransactionEngine::new, in either build
Init ==
    /\ accounts = <<>>
    /\ transactions = <<>>
    /\ disputes = {}
    /\ overflowChecks \in BOOLEAN
    /\ panicked = FALSE
    /\ rec = NoRecord
    /\ result = "None"
    /\ call = NoCall
    /\ net = [c \in Clients |-> 0]
    /\ history = NoHistory

\* one iteration of the reader loop: engine.handle_transaction(tx).  A panic
\* unwinds the process, so nothing is handled after it.
Step(tx) ==
    /\ ~panicked
    /\ \E out \in {handle_transaction(accounts, transactions, disputes, tx)} :
       /\ accounts' = out.accounts
       /\ transactions' = out.transactions
       /\ disputes' = out.disputes
       /\ result' = out.result
       /\ panicked' = (out.result = "Panic")
    /\ rec' = [id |-> tx.id, type |-> tx.type, client |-> tx.client]
    /\ UNCHANGED <<overflowChecks, call>>

Handle(tx) == Step(tx) /\ UNCHANGED <<net, history>>

Next == \E tx \in Transaction : Handle(tx)

Spec == Init /\ [][Next]_vars

(* ------------- a stream of deposits and withdrawals: LedgerSpec ------- *)

NumLedgerIds == 3
MaxCount == 2

LedgerTransaction ==
    [id : 1..NumLedgerIds, type : {"Deposit", "Withdrawal"}, client : Clients,
     amount : Amounts \cup {None}]

\* Handle, keeping the books of what succeeded
HandleLedger(tx) ==
    /\ Step(tx)
    /\ net' = IF result' = "Ok" /\ tx.type = "Deposit"
              THEN [net EXCEPT ![tx.client] = @ + tx.amount]
              ELSE IF result' = "Ok" /\ tx.type = "Withdrawal"
              THEN [net EXCEPT ![tx.client] = @ - tx.amount]
              ELSE net
    /\ UNCHANGED history

LedgerNext == \E tx \in LedgerTransaction : HandleLedger(tx)

LedgerSpec == Init /\ [][LedgerNext]_vars

(* ------------- one Account driven directly: AccountSpec --------------- *)

\* Handle, recording per id whether a Chargeback of it succeeded, and the
\* number of its successful Disputes minus the number of its successful
\* Resolves and Chargebacks
HandleHistory(tx) ==
    /\ Step(tx)
    /\ history' =
          [chargedBack |-> IF result' = "Ok" /\ tx.type = "Chargeback"
                           THEN history.chargedBack \cup {tx.id}
                           ELSE history.chargedBack,
           surplus |-> IF result' = "Ok" /\ tx.type = "Dispute"
                       THEN [history.surplus EXCEPT ![tx.id] = @ + 1]
                       ELSE IF result' = "Ok" /\ tx.type \in {"Resolve", "Chargeback"}
                       THEN [history.surplus EXCEPT ![tx.id] = @ - 1]
                       ELSE history.surplus]
    /\ \A t \in TxIds : history'.surplus[t] \in -MaxCount..MaxCount
    /\ UNCHANGED net

HistoryNext == \E tx \in Transaction : HandleHistory(tx)

HistorySpec == Init /\ [][HistoryNext]_vars

\* the amounts the Account operations are called with
CallAmounts == 0..MaxAmount

AccountInit ==
    /\ accounts = (1 :> new(1))
    /\ transactions = <<>>
    /\ disputes = {}
    /\ overflowChecks \in BOOLEAN
    /\ panicked = FALSE
    /\ rec = NoRecord
    /\ result = "None"
    /\ call = NoCall
    /\ net = [c \in Clients |-> 0]
    /\ history = NoHistory

\* account.<op>(amount) returned r
Called(op, amount, r) ==
    /\ ~panicked
    /\ accounts' = [accounts EXCEPT ![1] = r.acc]
    /\ call' = [op |-> op, amount |-> amount, pre |-> accounts[1], post |-> r.acc,
                res |-> r.res]
    /\ panicked' = (r.res = "Panic")
    /\ UNCHANGED <<transactions, disputes, overflowChecks, rec, result, net, history>>

CallDeposit(amount) == Called("deposit", amount, deposit(accounts[1], amount))
CallWithdrawal(amount) == Called("withdrawal", amount, withdrawal(accounts[1], amount))
CallHoldBack(amount) == Called("hold_back", amount, hold_back(accounts[1], amount))
CallSetFree(amount) == Called("set_free", amount, set_free(accounts[1], amount))
CallChargeBack(amount) == Called("charge_back", amount, charge_back(accounts[1], amount))

AccountNext ==
    \E amount \in CallAmounts :
        \/ CallDeposit(amount)
        \/ CallWithdrawal(amount)
        \/ CallHoldBack(amount)
        \/ CallSetFree(amount)
        \/ CallChargeBack(amount)

AccountSpec == AccountInit /\ [][AccountNext]_vars

(* ------------------------------ claims -------------------------------- *)

AccountErrors == {"Locked", "InsufficientFunds"}

\* the balances of the accounts are what they were before the step
BalancesUnchanged == accounts' = accounts

\* C1: after any sequence of handled records every account has available >= 0
\* and held >= 0, and total() returns exactly available + held.
C1_BalancesAndTotal ==
    ~panicked =>
        \A c \in DOMAIN accounts :
            LET a == accounts[c] IN
            /\ a.available >= 0
            /\ a.held >= 0
            /\ total(a).res = "Ok"
            /\ total(a).val = a.available + a.held

\* C2: in a stream of Deposit and Withdrawal records only, after every record
\* each account's available is the sum of the amounts of its successful
\* deposits minus the sum of the amounts of its successful withdrawals, and a
\* withdrawal larger than available fails with InsufficientFunds and changes
\* nothing.
C2_AvailableIsNetOfSuccessful ==
    [][/\ \A c \in DOMAIN accounts' : accounts'[c].available = net'[c]
       /\ \A c \in DOMAIN accounts :
            (/\ rec'.type = "Withdrawal"
             /\ rec'.client = c
             /\ rec'.id \in DOMAIN transactions'
             /\ rec'.id \notin DOMAIN transactions
             /\ transactions'[rec'.id].amount # None
             /\ transactions'[rec'.id].amount > accounts[c].available
             /\ ~accounts[c].locked)
            => (result' = "InsufficientFunds" /\ BalancesUnchanged)]_vars

\* C3: a Chargeback that returns success leaves the account of the referenced
\* transaction locked; a Chargeback that returns an error leaves every
\* account's locked flag as it was.
C3_ChargebackLocks ==
    [][rec'.type = "Chargeback" =>
          IF result' = "Ok"
          THEN /\ rec'.id \in DOMAIN transactions
               /\ accounts'[transactions[rec'.id].client].locked
          ELSE /\ DOMAIN accounts' = DOMAIN accounts
               /\ \A c \in DOMAIN accounts :
                      accounts'[c].locked = accounts[c].locked]_vars

C3_Witness ==
    /\ rec.type = "Chargeback"
    /\ result = "Ok"
    /\ \E c \in DOMAIN accounts : accounts[c].locked /\ accounts[c].available > 0

\* C4: on a locked account deposit, withdrawal, hold_back, set_free and
\* charge_back return Locked for every amount and leave the account as it was.
C4_LockedRejectsEverything ==
    (call.op # "None" /\ call.pre.locked) =>
        (call.res = "Locked" /\ call.post = call.pre)

C4_Witness ==
    /\ call.op = "set_free"
    /\ call.pre.locked
    /\ call.amount > 0
    /\ call.pre.held >= call.amount
    /\ call.res = "Locked"

\* C5: once an account is locked, no later record of any type, client or id
\* changes its locked flag, its available or its held.
C5_LockIsForever ==
    [][\A c \in DOMAIN accounts :
          accounts[c].locked =>
              (c \in DOMAIN accounts' /\ accounts'[c] = accounts[c])]_vars

C5_Witness ==
    /\ rec.type = "Deposit"
    /\ result = "Locked"
    /\ rec.client \in DOMAIN accounts
    /\ accounts[rec.client].locked
    /\ accounts[rec.client].available > 0

\* C6: an Account operation that returns Locked or InsufficientFunds leaves
\* available, held and locked as they were before the call.
C6_ErrorsChangeNothing ==
    call.res \in AccountErrors => call.post = call.pre

C6_Witness ==
    /\ call.op = "hold_back"
    /\ call.res = "InsufficientFunds"
    /\ ~call.pre.locked
    /\ call.pre.available > 0
    /\ call.pre.held > 0

\* C7: a Deposit or Withdrawal whose id is already in the transaction log
\* returns DuplicateTransaction and leaves the accounts, the log and the
\* open-disputes set as they were.
C7_DuplicateTransactionRejected ==
    [][(rec'.type \in {"Deposit", "Withdrawal"} /\ rec'.id \in DOMAIN transactions)
          => /\ result' = "DuplicateTransaction"
             /\ accounts' = accounts
             /\ transactions' = transactions
             /\ disputes' = disputes]_vars

C7_Witness ==
    /\ result = "DuplicateTransaction"
    /\ rec.type = "Deposit"
    /\ rec.id \in DOMAIN transactions
    /\ transactions[rec.id].type = "Withdrawal"
    /\ rec.client # transactions[rec.id].client

\* C8: a Dispute of a logged deposit whose id is already in the open-disputes
\* set returns DuplicateDispute and changes neither an account nor the set.
C8_DuplicateDisputeRejected ==
    [][(/\ rec'.type = "Dispute"
        /\ rec'.id \in DOMAIN transactions
        /\ transactions[rec'.id].type = "Deposit"
        /\ rec'.id \in disputes)
          => /\ result' = "DuplicateDispute"
             /\ BalancesUnchanged
             /\ disputes' = disputes]_vars

C8_Witness ==
    /\ rec.type = "Dispute"
    /\ result = "DuplicateDispute"
    /\ rec.id \in disputes
    /\ \E c \in DOMAIN accounts : accounts[c].held > 0

\* C9 as claimed: a Resolve or Chargeback whose id is not in the open-disputes
\* set returns UnknownDispute and changes no account.
C9_Original ==
    [][(rec'.type \in {"Resolve", "Chargeback"} /\ rec'.id \notin disputes)
          => (result' = "UnknownDispute" /\ BalancesUnchanged)]_vars

\* C9, amended: a Resolve or Chargeback whose id is not in the open-disputes
\* set fails and changes no account; the error is TransactionNotFound when the
\* id is not in the log, TransactionAmountNotSpecified when the logged record
\* has no amount, and UnknownDispute otherwise.
C9_UndisputedFails ==
    [][(rec'.type \in {"Resolve", "Chargeback"} /\ rec'.id \notin disputes)
          => /\ result' = IF rec'.id \notin DOMAIN transactions
                          THEN "TransactionNotFound"
                          ELSE IF transactions[rec'.id].amount = None
                          THEN "TransactionAmountNotSpecified"
                          ELSE "UnknownDispute"
             /\ BalancesUnchanged]_vars

C9_Witness ==
    /\ rec.type = "Chargeback"
    /\ result = "UnknownDispute"
    /\ rec.id \in DOMAIN transactions
    /\ rec.id \notin disputes
    /\ \E c \in DOMAIN accounts : accounts[c].held > 0

\* no id of a logged Withdrawal is in the open-disputes set after the step
NoWithdrawalDisputed ==
    \A t \in disputes' :
        ~(t \in DOMAIN transactions' /\ transactions'[t].type = "Withdrawal")

\* C10 as claimed: a Dispute of a logged Withdrawal returns ImpossibleDispute,
\* adds nothing to the open-disputes set and changes no account, and no
\* withdrawal id is ever in the set.
C10_Original ==
    [][/\ (/\ rec'.type = "Dispute"
           /\ rec'.id \in DOMAIN transactions
           /\ transactions[rec'.id].type = "Withdrawal")
          => /\ result' = "ImpossibleDispute"
             /\ disputes' = disputes
             /\ BalancesUnchanged
       /\ NoWithdrawalDisputed]_vars

\* C10, amended: a Dispute of a logged Withdrawal fails, with ImpossibleDispute
\* when the withdrawal was logged with an amount and with
\* TransactionAmountNotSpecified when it was logged without one; it adds nothing
\* to the open-disputes set and changes no account, and no withdrawal id is
\* ever in the set.
C10_WithdrawalNotDisputable ==
    [][/\ (/\ rec'.type = "Dispute"
           /\ rec'.id \in DOMAIN transactions
           /\ transactions[rec'.id].type = "Withdrawal")
          => /\ result' = IF transactions[rec'.id].amount = None
                          THEN "TransactionAmountNotSpecified"
                          ELSE "ImpossibleDispute"
             /\ disputes' = disputes
             /\ BalancesUnchanged
       /\ NoWithdrawalDisputed]_vars

C10_Witness ==
    /\ rec.type = "Dispute"
    /\ result = "ImpossibleDispute"
    /\ rec.id \in DOMAIN transactions
    /\ transactions[rec.id].type = "Withdrawal"
    /\ disputes # {}

\* the records that reference an earlier one
ReferringTypes == {"Dispute", "Resolve", "Chargeback"}

\* the account of client c before the step, as or_insert_with would find it
AccountBefore(c) == IF c \in DOMAIN accounts THEN accounts[c] ELSE new(c)

\* C11: a Dispute, Resolve or Chargeback whose id is not in the log returns
\* TransactionNotFound and leaves accounts, log and open-disputes set as they
\* were; a Deposit that then arrives with an id not in the log is handled as a
\* plain deposit of its own amount on its client's account, and its id is not
\* in the open-disputes set.
C11_NoDeferredMatch ==
    [][/\ (rec'.type \in ReferringTypes /\ rec'.id \notin DOMAIN transactions)
            => /\ result' = "TransactionNotFound"
               /\ accounts' = accounts
               /\ transactions' = transactions
               /\ disputes' = disputes
       /\ (/\ rec'.type = "Deposit"
           /\ rec'.id \notin DOMAIN transactions
           /\ rec'.id \in DOMAIN transactions'
           /\ transactions'[rec'.id].amount # None)
            => LET c == rec'.client
                   r == deposit(AccountBefore(c), transactions'[rec'.id].amount)
               IN /\ result' = r.res
                  /\ accounts'[c] = r.acc
                  /\ accounts'[c].held = AccountBefore(c).held
                  /\ rec'.id \notin disputes']_vars

C11_Witness ==
    /\ rec.type = "Dispute"
    /\ result = "TransactionNotFound"
    /\ rec.id \notin DOMAIN transactions
    /\ rec.client \in DOMAIN accounts
    /\ accounts[rec.client].available > 0

\* C12: a successful Dispute of a logged deposit with amount a takes exactly a
\* from the owning account's available, adds exactly a to its held, leaves
\* total() and locked as they were and puts the id into the open-disputes set.
C12_DisputeMovesAmount ==
    [][(rec'.type = "Dispute" /\ result' = "Ok")
          => /\ rec'.id \in DOMAIN transactions
             /\ transactions[rec'.id].type = "Deposit"
             /\ LET c == transactions[rec'.id].client
                    a == transactions[rec'.id].amount
                IN /\ accounts'[c].available = accounts[c].available - a
                   /\ accounts'[c].held = accounts[c].held + a
                   /\ total(accounts'[c]) = total(accounts[c])
                   /\ accounts'[c].locked = accounts[c].locked
             /\ rec'.id \in disputes']_vars

\* C13: from any engine state, a Dispute of t that succeeds, followed at once
\* by a Resolve of t, has the Resolve succeed and leaves accounts, log and
\* open-disputes set as they were before the Dispute.
C13_DisputeResolveRoundTrip ==
    ~panicked =>
        \A d \in Transaction :
            d.type = "Dispute" =>
                LET o1 == handle_transaction(accounts, transactions, disputes, d)
                    r == [id |-> d.id, type |-> "Resolve", client |-> d.client,
                          amount |-> None]
                    o2 == handle_transaction(o1.accounts, o1.transactions,
                                             o1.disputes, r)
                IN o1.result = "Ok"
                      => /\ o2.result = "Ok"
                         /\ o2.accounts = accounts
                         /\ o2.transactions = transactions
                         /\ o2.disputes = disputes

\* C14: a successful Chargeback of a disputed deposit with amount a takes
\* exactly a from held, leaves available alone, so that total() drops by
\* exactly a, locks the account and removes the id from the open-disputes set
\* and from the log; a Chargeback that fails leaves the referenced record in
\* the log.
C14_ChargebackRemovesHeld ==
    [][rec'.type = "Chargeback"
          => IF result' = "Ok"
             THEN /\ rec'.id \in DOMAIN transactions
                  /\ LET c == transactions[rec'.id].client
                         a == transactions[rec'.id].amount
                     IN /\ accounts'[c].held = accounts[c].held - a
                        /\ accounts'[c].available = accounts[c].available
                        /\ total(accounts[c]).res = "Ok"
                        /\ total(accounts'[c]).res = "Ok"
                        /\ total(accounts'[c]).val = total(accounts[c]).val - a
                        /\ accounts'[c].locked
                  /\ rec'.id \notin disputes'
                  /\ rec'.id \notin DOMAIN transactions'
             ELSE transactions' = transactions]_vars

\* C15: once a Chargeback of id t has succeeded, no later Dispute, Resolve or
\* Chargeback of t succeeds, whatever records come in between.
C15_ChargedBackNeverDisputedAgain ==
    [][(rec'.type \in ReferringTypes /\ rec'.id \in history.chargedBack)
          => result' # "Ok"]_vars

\* C16: a record for which handle_transaction returns an error leaves
\* available, held and locked of every account that existed before the call as
\* they were, and the engine goes on to the next record.
C16_FailedRecordChangesNoBalance ==
    [][result' \notin {"Ok", "Panic"}
          => /\ \A c \in DOMAIN accounts :
                    c \in DOMAIN accounts' /\ accounts'[c] = accounts[c]
             /\ ~panicked']_vars

C16_Witness ==
    /\ rec.type = "Withdrawal"
    /\ result = "InsufficientFunds"
    /\ rec.client \in DOMAIN accounts
    /\ accounts[rec.client].available > 0
    /\ ~panicked

\* C17: the open-disputes set changes only when the record succeeds, and for
\* every id the successful Resolves and Chargebacks never outnumber the
\* successful Disputes.
C17_ExactlyOnceLifecycle ==
    [][/\ disputes' # disputes => result' = "Ok"
       /\ \A t \in TxIds : history'.surplus[t] >= 0]_vars

\* C18: a Dispute of a logged deposit that fails inside hold_back leaves the id
\* in the open-disputes set, so that the same Dispute again returns
\* DuplicateDispute; a Resolve or Chargeback that fails inside set_free or
\* charge_back has removed the id from the set; no account changes in either
\* case.
C18_DisputeSetNotRolledBack ==
    [][/\ (rec'.type = "Dispute" /\ result' \in AccountErrors)
            => /\ rec'.id \notin disputes
               /\ rec'.id \in disputes'
               /\ accounts' = accounts
               /\ handle_transaction(accounts', transactions', disputes',
                      [id |-> rec'.id, type |-> "Dispute", client |-> rec'.client,
                       amount |-> None]).result = "DuplicateDispute"
       /\ (rec'.type \in {"Resolve", "Chargeback"} /\ result' \in AccountErrors)
            => /\ rec'.id \in disputes
               /\ rec'.id \notin disputes'
               /\ accounts' = accounts]_vars

C18_Witness ==
    /\ rec.type = "Dispute"
    /\ result = "InsufficientFunds"
    /\ rec.id \in disputes
    /\ \A c \in DOMAIN accounts : accounts[c].held = 0

\* C19: a Dispute, Resolve or Chargeback record with client id c changes no
\* account other than the account of c.
C19_OnlyRecordsClientChanges ==
    [][rec'.type \in ReferringTypes
          => \A c \in DOMAIN accounts :
                 c # rec'.client => (c \in DOMAIN accounts' /\ accounts'[c] = accounts[c])]_vars

\* C20: after a record that is not rejected as DuplicateTransaction has been
\* handled, the accounts hold an account of the record's client; when the
\* record failed and the account was absent before, it is the new account
\* with available 0, held 0 and locked false.
C20_AccountCreatedOnFirstReference ==
    [][result' \notin {"DuplicateTransaction", "Panic"}
          => /\ rec'.client \in DOMAIN accounts'
             /\ (rec'.client \notin DOMAIN accounts /\ result' # "Ok")
                   => accounts'[rec'.client] = new(rec'.client)]_vars

\* two records handled one after the other from the current state, as the
\* reader loop does: a panic in the first ends the run before the second
HandleBoth(a, b) ==
    LET o1 == handle_transaction(accounts, transactions, disputes, a)
        o2 == IF o1.result = "Panic"
              THEN Outcome(o1.accounts, o1.transactions, o1.disputes, "None")
              ELSE handle_transaction(o1.accounts, o1.transactions, o1.disputes, b)
    IN [first |-> o1.result, second |-> o2.result, accounts |-> o2.accounts,
        transactions |-> o2.transactions, disputes |-> o2.disputes]

\* C21: from any engine state, two consecutive records with different client
\* ids and different transaction ids give, in either order, the same result
\* per record and the same final accounts, log and open-disputes set.
C21_DifferentClientsCommute ==
    ~panicked =>
        \A a, b \in Transaction :
            (a.client # b.client /\ a.id # b.id) =>
                LET ab == HandleBoth(a, b)
                    ba == HandleBoth(b, a)
                IN /\ ab.first = ba.second
                   /\ ab.second = ba.first
                   /\ ab.accounts = ba.accounts
                   /\ ab.transactions = ba.transactions
                   /\ ab.disputes = ba.disputes

\* C22: no addition is reduced modulo 2^AmountBits: a successful Deposit or
\* Resolve leaves available the exact sum of what it was and the amount, a
\* successful Dispute leaves held the exact sum of what it was and the amount,
\* and total(), where it returns, is the exact sum of available and held.
C22_AdditionNeverWraps ==
    [][/\ (rec'.type = "Deposit" /\ result' = "Ok")
            => accounts'[rec'.client].available =
                   AccountBefore(rec'.client).available + transactions'[rec'.id].amount
       /\ (rec'.type = "Dispute" /\ result' = "Ok")
            => LET c == transactions[rec'.id].client
               IN accounts'[c].held = accounts[c].held + transactions[rec'.id].amount
       /\ (rec'.type = "Resolve" /\ result' = "Ok")
            => LET c == transactions[rec'.id].client
               IN accounts'[c].available =
                      accounts[c].available + transactions[rec'.id].amount
       /\ \A c \in DOMAIN accounts' :
              total(accounts'[c]).res = "Ok"
                 => total(accounts'[c]).val =
                        accounts'[c].available + accounts'[c].held]_vars

\* the sum of the logged amounts of the ids in S
RECURSIVE SumOfAmounts(_)
SumOfAmounts(S) ==
    IF S = {} THEN 0
    ELSE LET t == CHOOSE x \in S : TRUE
         IN transactions[t].amount + SumOfAmounts(S \ {t})

\* the logged deposits of client c that are under dispute
DisputedDepositsOf(c) ==
    {t \in disputes \cap DOMAIN transactions :
        /\ transactions[t].type = "Deposit"
        /\ transactions[t].client = c
        /\ transactions[t].amount # None}

\* C23: in every reachable state, held of every unlocked account is the sum
\* of the amounts of its logged deposits whose ids are in the open-disputes
\* set.
C23_HeldIsSumOfOpenDisputes ==
    \A c \in DOMAIN accounts :
        ~accounts[c].locked => accounts[c].held = SumOfAmounts(DisputedDepositsOf(c))

\* C24: in every reachable state, every id in the open-disputes set is the
\* key of a record in the log, that record is a Deposit with an amount, and
\* the log holds only Deposit and Withdrawal records.
C24_DisputesReferToLoggedDeposits ==
    /\ \A t \in disputes :
          /\ t \in DOMAIN transactions
          /\ transactions[t].type = "Deposit"
          /\ transactions[t].amount # None
    /\ \A t \in DOMAIN transactions :
          transactions[t].type \in {"Deposit", "Withdrawal"}

C24_Witness ==
    /\ rec.type = "Chargeback"
    /\ result = "Ok"
    /\ rec.id \notin DOMAIN transactions
    /\ disputes # {}
    /\ \E t \in DOMAIN transactions : transactions[t].type = "Deposit"

====
